---- MODULE Spec2Model ----
(***************************************************************************)
(* Conway's Game of Life on a torus (src/main.cpp): the two generation     *)
(* buffers, the colour buffer, UpdateGameOfLife, the seeding loop and the  *)
(* driver loop of main.                                                    *)
(*                                                                         *)
(* The grid dimensions are compile-time constants in the source (100 x     *)
(* 100).  Here they are state that never changes, drawn in the initial     *)
(* state from a small range, so that the same definitions are checked on   *)
(* several tori, square and not.                                           *)
(*                                                                         *)
(* A buffer of n cells is a function on 0..n-1, as the source indexes it.  *)
(* A Color is the tuple <<r, g, b, a>>.  Time is counted in milliseconds.  *)
(***************************************************************************)
EXTENDS Integers, Sequences, FiniteSets

VARIABLES
    GRID_WIDTH,      \* main.cpp:9
    GRID_HEIGHT,     \* main.cpp:10
    currentGen,      \* main.cpp:18
    nextGen,         \* main.cpp:19
    pixels,          \* main.cpp:20
    pc,              \* position in main
    hist,            \* history: currentGen before each of the last two calls
    tex,             \* content of the GPU texture (main.cpp:77, 100)
    screen,          \* texture content shown by the last DrawModel
    timer,           \* main.cpp:87, in milliseconds
    stepsInFrame,    \* history: UpdateGameOfLife calls in this loop iteration
    isMouseDown,     \* main.cpp:94
    lastMousePos,    \* main.cpp:93 (y component)
    orbitAngleX,     \* main.cpp:91
    orbitRadius,     \* main.cpp:90
    qx, qy, res      \* arguments and result of a GetIndex call

sim == <<currentGen, nextGen, pixels>>
dims == <<GRID_WIDTH, GRID_HEIGHT>>
camera == <<isMouseDown, lastMousePos, orbitAngleX, orbitRadius>>
query == <<qx, qy, res>>
vars == <<GRID_WIDTH, GRID_HEIGHT, currentGen, nextGen, pixels, pc, hist, tex,
          screen, timer, stepsInFrame, isMouseDown, lastMousePos, orbitAngleX,
          orbitRadius, qx, qy, res>>

----------------------------------------------------------------------------
(* Bounds of the model. *)

\* Largest width and height of the tori of Spec and SpecIndex.
MaxDim == 4

\* Largest width and height of the tori of SpecDriver and SpecDim.
DriverDim == 3

\* How far outside 0..W-1 (0..H-1) the arguments of GetIndex are drawn.
Reach == 2

----------------------------------------------------------------------------
(* Program constants. *)

\* GetRandomValue(0, 100) > 85
SeedThreshold == 85

\* timer >= 0.04f, in milliseconds
TickPeriod == 40

\* (Color){ 0, 255, 200, 255 }
CYAN == <<0, 255, 200, 255>>

\* raylib's BLACK
BLACK == <<0, 0, 0, 255>>

\* An element of the zero-initialised global array pixels.
ZeroColor == <<0, 0, 0, 0>>

GRID_SIZE == GRID_WIDTH * GRID_HEIGHT

\* C's % on int: the quotient truncates towards zero.
CRem(a, b) == IF a >= 0 THEN a % b ELSE -((-a) % b)

\* std::vector<Cell> currentGen(GRID_SIZE, 0)
NewCurrentGen == [i \in 0..(GRID_SIZE - 1) |-> 0]

\* A vector of GRID_WIDTH cells: the length of one row, not of the grid.
NewNextGen_OneRow == [i \in 0..(GRID_WIDTH - 1) |-> 0]

\* std::vector<Cell> nextGen(GRID_SIZE, 0)
NewNextGen == [i \in 0..(GRID_SIZE - 1) |-> 0]

\* Color pixels[GRID_SIZE], static storage
NewPixels == [i \in 0..(GRID_SIZE - 1) |-> ZeroColor]

----------------------------------------------------------------------------
(* GetIndex *)

\* A wrap that sends a coordinate below 0 to 0 instead of to the last one.
GetIndex_ClampLow(x, y) ==
    LET x1 == IF x < 0 THEN 0
              ELSE IF x >= GRID_WIDTH THEN 0 ELSE x
        y1 == IF y < 0 THEN 0
              ELSE IF y >= GRID_HEIGHT THEN 0 ELSE y
    IN  y1 * GRID_WIDTH + x1

GetIndex(x, y) ==
    LET x1 == IF x < 0 THEN GRID_WIDTH - 1
              ELSE IF x >= GRID_WIDTH THEN 0 ELSE x
        y1 == IF y < 0 THEN GRID_HEIGHT - 1
              ELSE IF y >= GRID_HEIGHT THEN 0 ELSE y
    IN  y1 * GRID_WIDTH + x1

----------------------------------------------------------------------------
(* UpdateGameOfLife *)

\* A neighbour sum that stops at the edges of the grid instead of wrapping.
Neighbors_NoWrap(cur, x, y) ==
    LET at(i, j) == IF i < 0 \/ i >= GRID_WIDTH \/ j < 0 \/ j >= GRID_HEIGHT
                    THEN 0 ELSE cur[j * GRID_WIDTH + i]
    IN  at(x - 1, y - 1) + at(x, y - 1) + at(x + 1, y - 1) +
        at(x - 1, y) + at(x + 1, y) +
        at(x - 1, y + 1) + at(x, y + 1) + at(x + 1, y + 1)

\* The neighbour sum of cell (x, y), read from cur.
Neighbors(cur, x, y) ==
    LET y_offset == y * GRID_WIDTH
        y_up == CRem(y - 1 + GRID_HEIGHT, GRID_HEIGHT) * GRID_WIDTH
        y_dn == CRem(y + 1, GRID_HEIGHT) * GRID_WIDTH
        x_left == CRem(x - 1 + GRID_WIDTH, GRID_WIDTH)
        x_right == CRem(x + 1, GRID_WIDTH)
    IN  cur[y_up + x_left] + cur[y_up + x] + cur[y_up + x_right] +
        cur[y_offset + x_left] + cur[y_offset + x_right] +
        cur[y_dn + x_left] + cur[y_dn + x] + cur[y_dn + x_right]

\* A rule that lets a live cell survive with two or more neighbours.
NextCell_NoOverpopulation(cell, neighbors) ==
    IF cell # 0
    THEN (IF neighbors >= 2 THEN 1 ELSE 0)
    ELSE (IF neighbors = 3 THEN 1 ELSE 0)

\* The value stored in nextGen[idx]: a bool converted to Cell.
NextCell(cell, neighbors) ==
    IF cell # 0
    THEN (IF neighbors = 2 \/ neighbors = 3 THEN 1 ELSE 0)
    ELSE (IF neighbors = 3 THEN 1 ELSE 0)

\* cell ? (Color){ 0, 255, 200, 255 } : BLACK
PixelOf(cell) == IF cell # 0 THEN CYAN ELSE BLACK

\* A loop body that colours the pixel from the generation being replaced.
UpdateCell_StalePixel(cur, bufs, x, y) ==
    LET idx == y * GRID_WIDTH + x
        nxt == [bufs.nextGen EXCEPT ![idx] = NextCell(cur[idx], Neighbors(cur, x, y))]
    IN  [nextGen |-> nxt,
         pixels |-> [bufs.pixels EXCEPT ![idx] = PixelOf(cur[idx])]]

\* A loop body that stores a cell of nextGen only when the cell is alive.
UpdateCell_SkipDead(cur, bufs, x, y) ==
    LET idx == y * GRID_WIDTH + x
        v == NextCell(cur[idx], Neighbors(cur, x, y))
        nxt == IF v # 0 THEN [bufs.nextGen EXCEPT ![idx] = v] ELSE bufs.nextGen
    IN  [nextGen |-> nxt,
         pixels |-> [bufs.pixels EXCEPT ![idx] = PixelOf(nxt[idx])]]

\* A loop body that counts the neighbours in the buffer it is writing.
UpdateCell_InPlace(cur, bufs, x, y) ==
    LET idx == y * GRID_WIDTH + x
        nxt == [bufs.nextGen EXCEPT ![idx] = NextCell(cur[idx], Neighbors(bufs.nextGen, x, y))]
    IN  [nextGen |-> nxt,
         pixels |-> [bufs.pixels EXCEPT ![idx] = PixelOf(nxt[idx])]]

\* The body of the inner loop for cell (x, y); bufs holds nextGen and pixels.
UpdateCell(cur, bufs, x, y) ==
    LET idx == y * GRID_WIDTH + x
        nxt == [bufs.nextGen EXCEPT ![idx] = NextCell(cur[idx], Neighbors(cur, x, y))]
    IN  [nextGen |-> nxt,
         pixels |-> [bufs.pixels EXCEPT ![idx] = PixelOf(nxt[idx])]]

\* The two nested loops: rows y = 0..H-1, in each row x = 0..W-1, which is
\* idx = y * W + x in ascending order.
RECURSIVE UpdateLoop(_, _, _)
UpdateLoop(cur, bufs, idx) ==
    IF idx >= GRID_SIZE
    THEN bufs
    ELSE UpdateLoop(cur,
                    UpdateCell(cur, bufs, CRem(idx, GRID_WIDTH), idx \div GRID_WIDTH),
                    idx + 1)

\* One call, from the buffers' contents before it to their contents after it.
UpdateGameOfLife(cur, nxt, pix) ==
    LET r == UpdateLoop(cur, [nextGen |-> nxt, pixels |-> pix], 0)
    IN  [currentGen |-> r.nextGen, nextGen |-> r.nextGen, pixels |-> r.pixels]

----------------------------------------------------------------------------
(* Initial states *)

\* The globals as constructed, and main's locals as first assigned.
Constructed ==
    /\ currentGen = NewCurrentGen
    /\ nextGen = NewNextGen
    /\ pixels = NewPixels
    /\ hist = <<>>
    /\ tex = <<>>
    /\ screen = <<>>
    /\ timer = 0
    /\ stepsInFrame = 0
    /\ isMouseDown = FALSE
    /\ lastMousePos = 0
    /\ orbitAngleX = 45
    /\ orbitRadius = 18

NoQuery == qx = 0 /\ qy = 0 /\ res = -1

\* The simulation core on tori of up to MaxDim x MaxDim cells.
Init ==
    /\ GRID_WIDTH \in 1..MaxDim
    /\ GRID_HEIGHT \in 1..MaxDim
    /\ Constructed
    /\ pc = "start"
    /\ NoQuery

\* The whole of main on tori of up to DriverDim x DriverDim cells.
InitDriver ==
    /\ GRID_WIDTH \in 1..DriverDim
    /\ GRID_HEIGHT \in 1..DriverDim
    /\ Constructed
    /\ pc = "start"
    /\ NoQuery

\* The whole of main built with GRID_WIDTH and GRID_HEIGHT from 0 up: with a
\* dimension of 0 the buffers are empty.  (A negative GRID_SIZE does not
\* build: pixels would be an array of negative size.)
InitDim ==
    /\ GRID_WIDTH \in 0..DriverDim
    /\ GRID_HEIGHT \in 0..DriverDim
    /\ Constructed
    /\ pc = "start"
    /\ NoQuery

\* One call of GetIndex, its arguments from Reach below 0 to Reach above the
\* last column and row.
InitIndex ==
    /\ GRID_WIDTH \in 1..MaxDim
    /\ GRID_HEIGHT \in 1..MaxDim
    /\ Constructed
    /\ pc = "query"
    /\ qx \in (0 - Reach)..(GRID_WIDTH - 1 + Reach)
    /\ qy \in (0 - Reach)..(GRID_HEIGHT - 1 + Reach)
    /\ res = -1

----------------------------------------------------------------------------
(* main: seeding *)

\* The 3 x 3 block of cells around cell c, wrapped.
Block(c) ==
    LET x == c % GRID_WIDTH
        y == c \div GRID_WIDTH
    IN  { ((y + dy) % GRID_HEIGHT) * GRID_WIDTH + ((x + dx) % GRID_WIDTH) :
            dx \in {-1, 0, 1}, dy \in {-1, 0, 1} }

\* The cells left of, at and right of cell c, wrapped.
Row3(c) ==
    LET x == c % GRID_WIDTH
        y == c \div GRID_WIDTH
    IN  { y * GRID_WIDTH + ((x + dx) % GRID_WIDTH) : dx \in {-1, 0, 1} }

\* The sets of cells that are seeded alive: every set of cells of the 3 x 3
\* block around the corner cell 0, which lies across all four edges of the
\* grid, and every horizontal line of three cells.  On a torus of at most
\* 3 x 3 cells these are all the sets of cells there are.
SeedSets ==
    (SUBSET Block(0)) \cup { Row3(c) : c \in 0..(GRID_SIZE - 1) }

\* The outcomes of the GRID_SIZE calls of GetRandomValue(0, 100): a draw just
\* above the threshold for a cell seeded alive, the threshold for the others.
SeedDraws ==
    { [i \in 0..(GRID_SIZE - 1) |-> IF i \in S THEN SeedThreshold + 1 ELSE SeedThreshold] :
        S \in SeedSets }

\* for (i...) { currentGen[i] = (draw > 85); pixels[i] = currentGen[i] ? ... }
SeedCell(draw) == IF draw > SeedThreshold THEN 1 ELSE 0

Seed ==
    /\ pc = "start"
    /\ \E draws \in (IF GRID_SIZE = 0 THEN {<<>>} ELSE SeedDraws) :
          LET seeded == [i \in DOMAIN currentGen |-> SeedCell(draws[i])]
          IN  /\ currentGen' = seeded
              /\ pixels' = [i \in DOMAIN pixels |->
                              IF i \in DOMAIN seeded THEN PixelOf(seeded[i]) ELSE pixels[i]]
    /\ pc' = "seeded"
    /\ UNCHANGED <<dims, nextGen, hist, tex, screen, timer, stepsInFrame, camera, query>>

----------------------------------------------------------------------------
(* A call of UpdateGameOfLife *)

\* The effect of the call on the program's buffers (and on the history).
CallUpdate ==
    LET r == UpdateGameOfLife(currentGen, nextGen, pixels)
    IN  /\ currentGen' = r.currentGen
        /\ nextGen' = r.nextGen
        /\ pixels' = r.pixels
        /\ hist' = IF Len(hist) < 2 THEN Append(hist, currentGen)
                   ELSE <<hist[2], currentGen>>

\* The simulation core on its own: after seeding, one call after another.
Step ==
    /\ pc = "seeded"
    /\ CallUpdate
    /\ UNCHANGED <<dims, pc, tex, screen, timer, stepsInFrame, camera, query>>

Next == Seed \/ Step

Spec == Init /\ [][Next]_vars

----------------------------------------------------------------------------
(* main: the driver loop *)

\* The values GetFrameTime returns, in milliseconds: a frame of half a tick
\* period and a frame of a whole one.
FrameTimes == {20, 40}

\* The values GetMousePosition().y returns.
MouseYs == {0, 400}

\* The values GetMouseWheelMove returns.
WheelMoves == {0, 45}

\* A tick condition that holds in every frame.
TickDue_EveryFrame(t) == t > 0

\* timer >= 0.04f
TickDue(t) == t >= TickPeriod

\* LoadTextureFromImage(canvas): the texture holds a copy of the image data.
LoadTextureFromImage(data) == data

\* An upload that leaves the texture as it was.
UpdateTexture_Skipped(texture, data) == texture

\* UpdateTexture(tex, pixels): the texture holds a copy of the data.
UpdateTexture(texture, data) == data

\* Image canvas = { pixels, ... }; Texture2D tex = LoadTextureFromImage(canvas);
\* and the setup up to the loop.
LoadTexture ==
    /\ pc = "seeded"
    /\ tex' = LoadTextureFromImage(pixels)
    /\ pc' = "loop"
    /\ UNCHANGED <<dims, sim, hist, screen, timer, stepsInFrame, camera, query>>

\* while (!WindowShouldClose()) { timer += GetFrameTime(); if (timer >= 0.04f)
FrameStart ==
    /\ pc = "loop"
    /\ \E dt \in FrameTimes : timer' = timer + dt
    /\ stepsInFrame' = 0
    /\ pc' = IF TickDue(timer') THEN "update" ELSE "input"
    /\ UNCHANGED <<dims, sim, hist, tex, screen, camera, query>>

\* UpdateGameOfLife();
Update ==
    /\ pc = "update"
    /\ CallUpdate
    /\ stepsInFrame' = stepsInFrame + 1
    /\ pc' = "upload"
    /\ UNCHANGED <<dims, tex, screen, timer, camera, query>>

\* UpdateTexture(tex, pixels); timer = 0.0f; }
Upload ==
    /\ pc = "upload"
    /\ tex' = UpdateTexture(tex, pixels)
    /\ timer' = 0
    /\ pc' = "input"
    /\ UNCHANGED <<dims, sim, hist, screen, stepsInFrame, camera, query>>

\* The mouse orbit controls and the zoom.  The mouse moves up and down only,
\* by an even number of pixels, so mouseDelta.y * 0.5f is a whole number;
\* orbitAngleY and the camera position computed from the angles are left out.
Input ==
    /\ pc = "input"
    /\ \E mouseY \in MouseYs, down \in BOOLEAN, wheelMove \in WheelMoves :
          LET turned == orbitAngleX + (mouseY - lastMousePos) \div 2
              zoomed == orbitRadius - wheelMove
          IN  /\ orbitAngleX' = IF down /\ isMouseDown
                                THEN (IF turned > 89 THEN 89
                                      ELSE IF turned < -89 THEN -89 ELSE turned)
                                ELSE orbitAngleX
              /\ isMouseDown' = down
              /\ lastMousePos' = mouseY
              /\ orbitRadius' = IF zoomed < 5 THEN 5
                                ELSE IF zoomed > 50 THEN 50 ELSE zoomed
    /\ pc' = "draw"
    /\ UNCHANGED <<dims, sim, hist, tex, screen, timer, stepsInFrame, query>>

\* BeginDrawing(); ... DrawModel(torusModel, ...); ... EndDrawing(); }
Draw ==
    /\ pc = "draw"
    /\ screen' = tex
    /\ pc' = "loop"
    /\ UNCHANGED <<dims, sim, hist, tex, timer, stepsInFrame, camera, query>>

\* WindowShouldClose() holds: UnloadTexture(tex); ...; return 0;
Close ==
    /\ pc = "loop"
    /\ tex' = <<>>
    /\ pc' = "closed"
    /\ UNCHANGED <<dims, sim, hist, screen, timer, stepsInFrame, camera, query>>

NextDriver ==
    Seed \/ LoadTexture \/ FrameStart \/ Update \/ Upload \/ Input \/ Draw \/ Close

SpecDriver == InitDriver /\ [][NextDriver]_vars

SpecDim == InitDim /\ [][NextDriver]_vars

----------------------------------------------------------------------------
(* A call of GetIndex *)

Lookup ==
    /\ pc = "query"
    /\ res' = GetIndex(qx, qy)
    /\ pc' = "answered"
    /\ UNCHANGED <<dims, sim, hist, tex, screen, timer, stepsInFrame, camera, qx, qy>>

NextIndex == Lookup

SpecIndex == InitIndex /\ [][NextIndex]_vars

----------------------------------------------------------------------------
(* Definitions the properties are stated with. *)

Xs == 0..(GRID_WIDTH - 1)
Ys == 0..(GRID_HEIGHT - 1)

\* The cell of grid g at (x, y), the coordinates taken modulo W and H.
CellAt(g, x, y) == g[(y % GRID_HEIGHT) * GRID_WIDTH + (x % GRID_WIDTH)]

\* The sum over the 8 wrapped positions around (x, y), the centre left out.
LiveNeighbours(g, x, y) ==
    CellAt(g, x - 1, y - 1) + CellAt(g, x, y - 1) + CellAt(g, x + 1, y - 1) +
    CellAt(g, x - 1, y) + CellAt(g, x + 1, y) +
    CellAt(g, x - 1, y + 1) + CellAt(g, x, y + 1) + CellAt(g, x + 1, y + 1)

\* Conway's rule.
Alive(was, n) == (was = 1 /\ n \in {2, 3}) \/ (was = 0 /\ n = 3)

\* currentGen as it was before the last call of UpdateGameOfLife.
Prev == hist[Len(hist)]

\* Grid g moved by (dx, dy) on the torus: the cell at (x, y) goes to (x + dx, y + dy).
ShiftGrid(g, dx, dy) ==
    [i \in 0..(GRID_SIZE - 1) |->
        CellAt(g, (i % GRID_WIDTH) - dx, (i \div GRID_WIDTH) - dy)]

\* The grid whose live cells are exactly the cells of S.
GridOf(S) == [i \in 0..(GRID_SIZE - 1) |-> IF i \in S THEN 1 ELSE 0]

\* The horizontal and the vertical line of three cells centred at (x, y).
HLine(x, y) == GridOf({ y * GRID_WIDTH + ((x + d) % GRID_WIDTH) : d \in {-1, 0, 1} })
VLine(x, y) == GridOf({ ((y + d) % GRID_HEIGHT) * GRID_WIDTH + x : d \in {-1, 0, 1} })

\* The colouring of a grid.
ColouringOf(g) == [i \in 0..(GRID_SIZE - 1) |-> IF g[i] # 0 THEN CYAN ELSE BLACK]

----------------------------------------------------------------------------
(* Properties of Spec *)

\* C1: after a call of UpdateGameOfLife every cell (x, y) is alive exactly when
\* it was alive before the call with 2 or 3 live neighbours, or dead before
\* the call with exactly 3, the neighbours being the 8 wrapped positions
\* around (x, y) in the grid as it was before the call; a cell is 0 or 1.
RuleOfLife ==
    hist # <<>> =>
        \A x \in Xs, y \in Ys :
            /\ Prev[y * GRID_WIDTH + x] \in {0, 1}
            /\ currentGen[y * GRID_WIDTH + x] =
                  IF Alive(Prev[y * GRID_WIDTH + x], LiveNeighbours(Prev, x, y))
                  THEN 1 ELSE 0

\* A call has run on a torus of at least 3 x 3 cells in which a live cell with
\* 4 or more live neighbours died, a live cell with 2 survived, a live cell
\* with fewer than 2 died and a dead cell with 3 was born.
RuleOfLifeWitness ==
    /\ hist # <<>>
    /\ GRID_WIDTH >= 3 /\ GRID_HEIGHT >= 3
    /\ \E a, b, c, d \in 0..(GRID_SIZE - 1) :
          LET n(i) == LiveNeighbours(Prev, i % GRID_WIDTH, i \div GRID_WIDTH)
          IN  /\ Prev[a] = 1 /\ n(a) >= 4 /\ currentGen[a] = 0
              /\ Prev[b] = 1 /\ n(b) = 2 /\ currentGen[b] = 1
              /\ Prev[c] = 1 /\ n(c) < 2 /\ currentGen[c] = 0
              /\ Prev[d] = 0 /\ n(d) = 3 /\ currentGen[d] = 1

\* C2: once seeded, and after every call of UpdateGameOfLife, pixels[i] is the
\* foreground colour if currentGen[i] is alive and black if it is not.
ColourMatchesCell ==
    pc # "start" =>
        \A i \in 0..(GRID_SIZE - 1) :
            /\ (pixels[i] = CYAN) <=> (currentGen[i] # 0)
            /\ (currentGen[i] = 0) => (pixels[i] = BLACK)

\* Two calls have run, the last one changed the grid, and the grid holds both
\* a live and a dead cell.
ColourMatchesCellWitness ==
    /\ Len(hist) = 2
    /\ currentGen # Prev
    /\ \E i, j \in 0..(GRID_SIZE - 1) : currentGen[i] = 1 /\ currentGen[j] = 0

\* C3: for every grid G a call has run on and every shift (dx, dy), the call on
\* G moved by (dx, dy) gives the result of the call on G, moved by (dx, dy),
\* so shifting commutes with UpdateGameOfLife; and a dead
\* corner cell (0, 0) whose only live neighbours are (W-1, H-1), (W-1, 0) and
\* (0, H-1) is born.
TranslationInvariant ==
    hist # <<>> =>
        /\ \A dx \in Xs, dy \in Ys :
              UpdateGameOfLife(ShiftGrid(Prev, dx, dy), NewNextGen, NewPixels).currentGen
                = ShiftGrid(currentGen, dx, dy)
        /\ (/\ GRID_WIDTH >= 3 /\ GRID_HEIGHT >= 3
            /\ Prev = GridOf({GRID_SIZE - 1, GRID_WIDTH - 1, GRID_SIZE - GRID_WIDTH}))
              => currentGen[0] = 1

\* The first call has run on a torus that is not square, on a grid whose dead
\* corner cell (0, 0) had live neighbours across the wrapped edges, and the
\* corner cell was born.
TranslationInvariantWitness ==
    /\ Len(hist) = 1
    /\ GRID_WIDTH >= 3 /\ GRID_HEIGHT >= 3 /\ GRID_WIDTH # GRID_HEIGHT
    /\ Prev[GRID_SIZE - 1] = 1 /\ Prev[GRID_WIDTH - 1] = 1
    /\ Prev[GRID_SIZE - GRID_WIDTH] = 1 /\ Prev[0] = 0
    /\ currentGen[0] = 1

\* C4: on a torus of at least 4 x 4 cells, a grid whose only live cells are a
\* horizontal line of three becomes the vertical line of three through the
\* same centre with one call, and the horizontal line again with the next.
BlinkerPeriodTwo ==
    (Len(hist) = 2 /\ GRID_WIDTH >= 4 /\ GRID_HEIGHT >= 4) =>
        \A x \in Xs, y \in Ys :
            hist[1] = HLine(x, y) => (hist[2] = VLine(x, y) /\ currentGen = HLine(x, y))

\* Two calls have run on a horizontal line that lies across the wrapped left
\* and right edges, in the row across the wrapped top and bottom edges.
BlinkerPeriodTwoWitness ==
    /\ Len(hist) = 2
    /\ GRID_WIDTH >= 4 /\ GRID_HEIGHT >= 4
    /\ hist[1] = HLine(0, 0)
    /\ hist[2] = VLine(0, 0)
    /\ currentGen = hist[1]

\* C5: the result of a call depends on currentGen before the call alone: the
\* buffers after the call are those the call gives from freshly constructed
\* nextGen and pixels, and those it gives from a nextGen of live cells and
\* pixels of the foreground colour.
StepDeterministic ==
    hist # <<>> =>
        LET got == [currentGen |-> currentGen, nextGen |-> nextGen, pixels |-> pixels]
        IN  /\ UpdateGameOfLife(Prev, NewNextGen, NewPixels) = got
            /\ UpdateGameOfLife(Prev, [i \in 0..(GRID_SIZE - 1) |-> 1],
                                 [i \in 0..(GRID_SIZE - 1) |-> CYAN]) = got

\* Two calls have run, so the last one started from a nextGen and pixels
\* other than the constructed ones, and it left live and dead cells.
StepDeterministicWitness ==
    /\ Len(hist) = 2
    /\ hist[1] # hist[2]
    /\ hist[2] # NewNextGen
    /\ \E i, j \in 0..(GRID_SIZE - 1) : currentGen[i] = 1 /\ currentGen[j] = 0

\* C7: currentGen, nextGen and pixels each hold GRID_WIDTH * GRID_HEIGHT
\* elements, indexed from 0, in every state.
BufferSizesKept ==
    /\ DOMAIN currentGen = 0..(GRID_WIDTH * GRID_HEIGHT - 1)
    /\ DOMAIN nextGen = 0..(GRID_WIDTH * GRID_HEIGHT - 1)
    /\ DOMAIN pixels = 0..(GRID_WIDTH * GRID_HEIGHT - 1)

\* Two calls have run, each ending in currentGen = nextGen, on a torus that
\* is not square.
BufferSizesKeptWitness ==
    /\ Len(hist) = 2
    /\ GRID_WIDTH # GRID_HEIGHT
    /\ GRID_SIZE >= 6
    /\ currentGen = nextGen

----------------------------------------------------------------------------
(* Properties of SpecDriver *)

\* C8: in the driver loop only the call of UpdateGameOfLife changes
\* currentGen, nextGen or pixels: the timer update, the texture upload, the
\* camera and input code and the drawing leave them as they are; and the
\* call is reached only in an iteration whose timer has reached 0.04 s.
FramesKeepSim ==
    [][ /\ (pc \in {"seeded", "loop", "upload", "input", "draw"}) => UNCHANGED sim
        /\ (pc = "loop" /\ pc' = "update") => timer' >= TickPeriod
        /\ (pc = "loop" /\ timer' < TickPeriod) => pc' \in {"input", "closed"} ]_vars

\* An iteration without a tick, after a call has run, is about to draw, and
\* its input code has changed the camera.
FramesKeepSimWitness ==
    /\ pc = "draw"
    /\ hist # <<>>
    /\ stepsInFrame = 0
    /\ timer > 0 /\ timer < TickPeriod
    /\ isMouseDown /\ orbitRadius # 18 /\ orbitAngleX # 45

\* C10: at most one call of UpdateGameOfLife runs in a loop iteration; at
\* every draw the texture holds pixels, which is the colouring of currentGen;
\* and what was drawn last is, at the top of the loop, the colouring of
\* currentGen.
TextureCurrentAtDraw ==
    /\ stepsInFrame <= 1
    /\ pc = "draw" => (tex = pixels /\ pixels = ColouringOf(currentGen))
    /\ (pc = "loop" /\ screen # <<>>) => screen = ColouringOf(currentGen)

\* An iteration whose call changed the grid is about to draw a grid with a
\* live cell.
TextureCurrentAtDrawWitness ==
    /\ pc = "draw"
    /\ stepsInFrame = 1
    /\ hist # <<>>
    /\ currentGen # Prev
    /\ \E i \in 0..(GRID_SIZE - 1) : currentGen[i] = 1

----------------------------------------------------------------------------
(* Property of SpecDim *)

----------------------------------------------------------------------------
(* Properties of SpecIndex *)

\* The index of (x, y) with both coordinates taken modulo W and H.
ModIndex(x, y) == (y % GRID_HEIGHT) * GRID_WIDTH + (x % GRID_WIDTH)

\* C9 as stated: for all x and y, GetIndex(x, y) is the modulo index, and it
\* lies in 0..W*H-1.
IndexIsModulo ==
    pc = "answered" =>
        /\ res = ModIndex(qx, qy)
        /\ res >= 0 /\ res < GRID_SIZE

\* C9, amended: for all x and y, GetIndex(x, y) lies in 0..W*H-1; and for x in
\* -1..W and y in -1..H, the coordinates at most one step off the grid, it
\* is the modulo index.
IndexIsModuloOneStep ==
    pc = "answered" =>
        /\ res >= 0 /\ res < GRID_SIZE
        /\ (qx \in (-1)..GRID_WIDTH /\ qy \in (-1)..GRID_HEIGHT) => res = ModIndex(qx, qy)

\* GetIndex has answered for the column left of the grid and the row below
\* it, on a torus that is not square.
IndexIsModuloOneStepWitness ==
    /\ pc = "answered"
    /\ GRID_WIDTH >= 2 /\ GRID_HEIGHT >= 2 /\ GRID_WIDTH # GRID_HEIGHT
    /\ qx = -1 /\ qy = GRID_HEIGHT
    /\ res = GRID_WIDTH - 1

====
